---------------------------- MODULE Spec2Model ----------------------------
(***************************************************************************)
(* The perception-decision-action loop of src/ai_desktop_controller.py:    *)
(* the rate limiter (check_rate_limit), the action executor                *)
(* (execute_action), the screen capture (take_screenshot), the perception  *)
(* client (analyze_screen_with_ai), the bounded task loop                 *)
(* (execute_ai_task) and the autonomous loop (start_autonomous_mode, stop),*)
(* with the construction of the controller (__init__), the dashboard's     *)
(* handlers of src/web_interface.py, and the host panel's compose job of   *)
(* src/host_gui.py.                                                        *)
(*                                                                         *)
(* The specifications share the variables:                                 *)
(*   Spec          single actions and tasks, one call after the other      *)
(*   TaskSpec      tasks only, the task's thread scheduled fairly          *)
(*   PerceiveSpec  take_screenshot and analyze_screen_with_ai by themselves*)
(*   AutoSpec      the autonomous loop with stop() from another thread     *)
(*   StartupSpec   the process from its start: construction, then calls    *)
(*   ConfSpec      actions and suggestions that carry a confidence         *)
(*   InterruptSpec the autonomous loop with KeyboardInterrupt              *)
(*   WebSpec       the dashboard: start, stop, tasks and captures          *)
(*   RaceSpec      two threads inside execute_action                       *)
(*   FrameSpec     the operations that read the session state              *)
(*   ToggleSpec    start and stop requests with a worker                   *)
(*   EmitSpec      dashboard tasks and their task_completed events         *)
(*   HostSpec      concurrent start_compose_job calls                      *)
(*                                                                         *)
(* Time is the value of time.time() in whole seconds.  The clock is        *)
(* sampled on a coarse grid: the time that passes during a sleep, a        *)
(* backend call or a perception request is any element of Elapsed, and     *)
(* the durations the code asks time.sleep for are recorded in wait_slept   *)
(* and loop_slept.                                                         *)
(***************************************************************************)
EXTENDS Integers, Sequences, FiniteSets, TLC

(***************************************************************************)
(* Bounds of the model.                                                    *)
(***************************************************************************)
\* The ceiling the controller is constructed with.  The source sets 30
\* (ai_desktop_controller.py:75); check_rate_limit only compares the list
\* length with it, and the model runs the same code with a small ceiling.
MaxActionsPerMinute == 3
\* The clock stops at MaxTime.
MaxTime == 60
\* The largest max_iterations a task is started with.
MaxIterations == 2
\* The compose processes after which the host panel takes no new request.
MaxJobs == 3

(***************************************************************************)
(* Program constants.                                                      *)
(***************************************************************************)
\* check_rate_limit keeps the timestamps t with current_time - t < 60.
Window == 60
\* wait_time = action.x if action.x else 1
DefaultWait == 1
\* time.sleep(2) of the task loop's wait path.
ShortSleep == 2
\* config["ai"]["decision_interval"], 3.0 by default.
decision_interval == 3

\* The steps by which the sampled clock advances.
TimeSteps == {Window - 1, Window}
Elapsed == {0} \cup TimeSteps

(***************************************************************************)
(* Optional values: Python's None and a present value.                     *)
(***************************************************************************)
None == << >>
Some(v) == << v >>
IsNone(o) == o = None
Val(o) == o[1]

(***************************************************************************)
(* DesktopAction (a dataclass): action_type, x, y, text, key.  confidence  *)
(* and reasoning are never read by the control flow and are left out.      *)
(***************************************************************************)
DesktopAction(k, x, y, t, key) ==
    [action_type |-> k, x |-> x, y |-> y, text |-> t, key |-> key]

XVals == {None, Some(0)}
YVals == {None, Some(7)}
WaitVals == {None, Some(0), Some(7), Some(-1)}
TextVals == {None, Some(""), Some("hi")}
KeyVals == {None, Some(""), Some("enter")}

\* The actions the model feeds to the executor: for every kind, every
\* combination of the fields that kind reads.
Actions ==
    {DesktopAction(k, x, y, None, None) :
        k \in {"click", "scroll", "move"}, x \in XVals, y \in YVals}
    \cup {DesktopAction("type", None, None, t, None) : t \in TextVals}
    \cup {DesktopAction("key_press", None, None, None, key) : key \in KeyVals}
    \cup {DesktopAction("wait", x, None, None, None) : x \in WaitVals}
    \cup {DesktopAction(k, None, None, None, None) :
            k \in {"screenshot", "task_complete", "unknown"}}

NoAction == DesktopAction("", None, None, None, None)

\* The key "type" is absent from a suggested_action dict.
Missing == "<missing>"

\* The suggested_action dicts the model lets the vision model answer: the
\* actions above, and dicts without a "type".
Suggestions ==
    Actions \cup {DesktopAction(Missing, x, None, None, None) : x \in {None, Some(7)}}

\* A reply of the vision model, or the failure of the request.
\*   transport_error  openai.ChatCompletion.create raised
\*   not_json         the reply's text is prose, not JSON
\*   cut_json         the reply's text is JSON cut off before its end
\*   non_object       the text is JSON, not an object (a list, a string, null)
\*   object           a JSON object; sa tells its "suggested_action":
\*                    absent, null, empty ({}), bad (not an object) or dict
Reply(shape, sa, s) == [shape |-> shape, sa |-> sa, s |-> s]

Responses ==
    {Reply(shape, "absent", NoAction) :
        shape \in {"transport_error", "not_json", "cut_json", "non_object"}}
    \cup {Reply("object", sa, NoAction) : sa \in {"absent", "null", "empty", "bad"}}
    \cup {Reply("object", "dict", s) : s \in Suggestions}

\* A call of the input/capture backend (pyautogui), or none.
Call(fn, args) == [fn |-> fn, args |-> args]
NoCall == Call("none", << >>)

\* What can go wrong in a call of the backend or of the screenshot store.
Faults == {"ok", "backend_error", "save_error"}

\* The threads that serve the host panel's POST /action requests, and the
\* jobs they ask for.
HostThreads == {"h1", "h2"}
JobNames == {"build", "up"}

\* A request thread outside start_compose_job, with what its latest call
\* returned.
HostIdle(ret) == [at |-> "idle", name |-> "none", ret |-> ret]

\* The threads that call execute_action on the shared controller: a
\* control loop's, and the one serving POST /api/action.
Callers == {"loop", "request"}

VARIABLES
    now,                    \* time.time()
    max_actions_per_minute, \* self.max_actions_per_minute
    action_timestamps,      \* self.action_timestamps
    interaction_count,      \* self.interaction_count
    current_screenshot,     \* self.current_screenshot: None or the capture's time
    last_action,            \* the argument of the latest execute_action call
    last_result,            \* what it returned: "none" before the first call
    last_allow,             \* what its check_rate_limit returned
    last_backend,           \* the input-backend call it made, or None
    last_raised,            \* whether that call (or the sleep) raised
    wait_slept,             \* the seconds its wait branch slept
    returned_true,          \* the number of execute_action calls that returned True
    pc,                     \* the task loop's position
    iteration,              \* execute_ai_task's iteration
    max_iterations,         \* execute_ai_task's max_iterations
    task_completed,         \* execute_ai_task's task_completed
    task_result,            \* what execute_ai_task returned, or "raised"
    task_captures,          \* take_screenshot calls made by the running task
    task_analyses,          \* analyze_screen_with_ai calls made by the running task
    cycle_execs,            \* execute_action calls made by the current cycle
    complete_at,            \* the cycle whose suggestion was task_complete, or 0
    loop_slept,             \* the seconds the current cycle slept at its end
    capture_fault,          \* what went wrong in the latest take_screenshot call
    capture_result,         \* what that call did: "image" returned, or "raised"
    reply_in,               \* the reply to the latest analyze_screen_with_ai call
    analysis_out,           \* what that call returned
    analysis_raised,        \* whether that call raised instead
    is_running,             \* self.is_running
    apc,                    \* start_autonomous_mode's position, "off" outside it
    auto_end,               \* how the latest start_autonomous_mode call ended
    auto_execs,             \* execute_action calls made by its current cycle
    stop_at,                \* its position at the latest stop() call
    proc,                   \* the process: "starting", "ready" (constructed), "exited"
    api_key,                \* config["openai"]["api_key"]
    config_ceiling,         \* the configuration's max_actions_per_minute, if any
    web_running,            \* web_interface.is_running, the dashboard's flag
    worker,                 \* the autonomous_worker thread: "none", "spawned", "called"
    stop_pending,           \* a stop request was accepted and no start request since
    web_answer,             \* 'status' of the latest answer of POST /api/autonomous
    in_call,                \* per thread: the action its execute_action call has
                            \* passed the rate check with, NoAction outside
    count_read,             \* per thread: the interaction_count it has loaded for
                            \* `+= 1` and not yet stored back, if any
    pruned_read,            \* per thread: the action and the list its rate check
                            \* has built and not yet assigned, if any
    status_report,          \* the latest answer of GET /api/status, if any
    info_count,             \* interactions_count of the latest get_system_info()
    task_thread,            \* the run_task thread of POST /api/task: "none", "running"
    task_events,            \* task_completed events emitted for the latest task
    task_event,             \* 'success' of the latest task_completed event
    job_lock,               \* host_gui._job_lock: the thread that holds it, or "none"
    job_name,               \* host_gui._job_name
    job_proc,               \* host_gui._job_proc: the process it refers to
    job_log,                \* host_gui._job_log
    job_running,            \* the compose processes that have not exited
    job_count,              \* the compose processes started so far
    host_thread             \* per request thread: its position in start_compose_job,
                            \* the job name it was called with, and what it returned

execVars ==
    << last_action, last_result, last_allow, last_backend, last_raised,
       wait_slept, returned_true >>
limiterVars == << max_actions_per_minute, action_timestamps, interaction_count >>
taskVars ==
    << pc, iteration, max_iterations, task_completed, task_result,
       task_captures, task_analyses, cycle_execs, complete_at, loop_slept >>
perceiveVars ==
    << capture_fault, capture_result, reply_in, analysis_out, analysis_raised >>
autoVars == << is_running, apc, auto_end, auto_execs, stop_at >>
procVars == << proc, api_key, config_ceiling >>
webVars == << web_running, worker, stop_pending, web_answer >>
raceVars == << in_call, count_read, pruned_read >>
statusVars == << status_report, info_count >>
emitVars == << task_thread, task_events, task_event >>
hostVars ==
    << job_lock, job_name, job_proc, job_log, job_running, job_count, host_thread >>
frontVars == << procVars, webVars, raceVars, statusVars, emitVars, hostVars >>
vars ==
    << now, limiterVars, current_screenshot, execVars, taskVars, perceiveVars,
       autoVars, frontVars >>

(***************************************************************************)
(* check_rate_limit.                                                       *)
(***************************************************************************)
\* Mutants of Prune: a timestamp exactly 60 seconds old is kept; nothing is
\* ever discarded.
PruneInclusive(ts, current_time) ==
    SelectSeq(ts, LAMBDA t : current_time - t <= Window)

PruneNever(ts, current_time) == ts

\* [t for t in self.action_timestamps if current_time - t < 60]
Prune(ts, current_time) ==
    SelectSeq(ts, LAMBDA t : current_time - t < Window)

\* Mutant of WithinLimit: the comparison is off by one.
WithinLimitInclusive(ts, ceiling) == Len(ts) <= ceiling

\* len(self.action_timestamps) < self.max_actions_per_minute
WithinLimit(ts, ceiling) == Len(ts) < ceiling

(***************************************************************************)
(* take_screenshot: the backend's capture may raise; the frame then        *)
(* becomes current_screenshot; saving the timestamped copy may raise.      *)
(* Every exception is logged and re-raised.                                *)
(***************************************************************************)
ScreenshotRaises(fault) == fault # "ok"

ScreenshotAfter(shot, fault, t) ==
    IF fault = "backend_error" THEN shot ELSE Some(t)

(***************************************************************************)
(* execute_action.                                                         *)
(***************************************************************************)
\* action.x is not None and action.y is not None
HasCoords(a) == ~IsNone(a.x) /\ ~IsNone(a.y)

\* if action.text: / if action.key:
Truthy(o) == ~IsNone(o) /\ Val(o) # ""

\* wait_time = action.x if action.x else 1
WaitTime(a) == IF ~IsNone(a.x) /\ Val(a.x) # 0 THEN Val(a.x) ELSE DefaultWait

\* Mutant of Recognised: the else branch is missing, and every kind falls
\* through to the counters.
RecognisedAny(a) == TRUE

\* The branches of the if/elif chain; the else branch returns False.
Recognised(a) ==
    a.action_type \in
        {"click", "type", "key_press", "scroll", "move", "screenshot", "wait"}

\* The backend call the chosen branch makes.
BackendCall(a) ==
    CASE a.action_type = "click" /\ HasCoords(a) ->
            Call("click", << Val(a.x), Val(a.y) >>)
      [] a.action_type = "type" /\ Truthy(a.text) ->
            Call("write", << Val(a.text) >>)
      [] a.action_type = "key_press" /\ Truthy(a.key) ->
            Call("press", << Val(a.key) >>)
      [] a.action_type = "scroll" /\ HasCoords(a) ->
            Call("scroll", << Val(a.y), Val(a.x) >>)
      [] a.action_type = "move" /\ HasCoords(a) ->
            Call("moveTo", << Val(a.x), Val(a.y) >>)
      [] a.action_type = "screenshot" ->
            Call("screenshot", << >>)
      [] OTHER -> NoCall

\* The seconds the wait branch gives to time.sleep (0: no sleep).
WaitSleep(a) == IF a.action_type = "wait" THEN WaitTime(a) ELSE 0

\* Whether the try block raises: the backend call fails, take_screenshot
\* re-raises, or time.sleep gets a negative duration (ValueError).
Raises(a, fault) ==
    \/ BackendCall(a) # NoCall /\ fault = "backend_error"
    \/ a.action_type = "screenshot" /\ ScreenshotRaises(fault)
    \/ WaitSleep(a) < 0

\* Mutant of Succeeds: the exception is swallowed around the backend call
\* and the call still counts.
SucceedsDespiteRaise(a, fault) == Recognised(a)

\* Whether the try block reaches `return True`.
Succeeds(a, fault) == Recognised(a) /\ ~Raises(a, fault)

\* Mutant of CountAfter: the count is taken before the dispatch, for every
\* call the limiter lets through.
CountAfterEveryAttempt(count, allow, ok) == IF allow THEN count + 1 ELSE count

\* self.interaction_count += 1, reached only on the way to `return True`.
CountAfter(count, allow, ok) == IF allow /\ ok THEN count + 1 ELSE count

\* Mutant of TimestampsAfter: the time is recorded on every check, also
\* when the limiter rejects the call.
TimestampsAfterEveryCheck(pruned, allow, ok, t) ==
    IF ok THEN Append(pruned, t) ELSE pruned

\* self.action_timestamps.append(time.time()), on the same path; a call
\* the limiter rejects leaves the pruned list.
TimestampsAfter(pruned, allow, ok, t) ==
    IF allow /\ ok THEN Append(pruned, t) ELSE pruned

\* The faults that apply to an action: save_error only to a screenshot.
FaultsOf(a) ==
    IF a.action_type = "screenshot" THEN Faults
    ELSE IF BackendCall(a) # NoCall THEN {"ok", "backend_error"}
    ELSE {"ok"}

\* The time that can pass inside a call before time.time() is read for the
\* record (read only by a call that succeeds).
ElapsedIn(a, fault) ==
    IF Succeeds(a, fault) THEN {d \in Elapsed : now + d <= MaxTime} ELSE {0}

\* One call of execute_action(a): check_rate_limit at time now, then the
\* try block, d seconds passing before time.time() is read for the record.
Execute(a, fault, d) ==
    LET pruned == Prune(action_timestamps, now)
        allow == WithinLimit(pruned, max_actions_per_minute)
        ok == Succeeds(a, fault)
        ran == allow /\ Recognised(a)
        t == IF allow /\ ok THEN now + d ELSE now
    IN  /\ now' = t
        /\ action_timestamps' = TimestampsAfter(pruned, allow, ok, t)
        /\ interaction_count' = CountAfter(interaction_count, allow, ok)
        /\ current_screenshot' =
              IF allow /\ a.action_type = "screenshot"
              THEN ScreenshotAfter(current_screenshot, fault, now)
              ELSE current_screenshot
        /\ last_action' = a
        /\ last_allow' = allow
        /\ last_result' = IF allow /\ ok THEN "true" ELSE "false"
        /\ last_backend' = IF allow THEN BackendCall(a) ELSE NoCall
        /\ last_raised' = (ran /\ Raises(a, fault))
        /\ wait_slept' = IF allow /\ WaitSleep(a) > 0 THEN WaitSleep(a) ELSE 0
        /\ returned_true' = IF allow /\ ok THEN returned_true + 1 ELSE returned_true
        /\ UNCHANGED max_actions_per_minute

\* execute_action called directly (a front end's single action, a test),
\* one call after the other, while no task loop runs.
ExecuteAction(a, fault, d) ==
    /\ pc = "idle"
    /\ UNCHANGED << perceiveVars, autoVars, frontVars >>
    /\ d \in ElapsedIn(a, fault)
    /\ Execute(a, fault, d)
    /\ UNCHANGED taskVars

(***************************************************************************)
(* analyze_screen_with_ai: what it returns for a reply.                    *)
(***************************************************************************)
Analysis(is_dict, text, elements, sa, s) ==
    [is_dict |-> is_dict, analysis |-> text, elements |-> elements,
     sa |-> sa, s |-> s]

\* ai_response = response.choices[0].message.content
ReplyText(reply) ==
    CASE reply.shape = "not_json" -> "prose"
      [] reply.shape = "cut_json" -> "cut"
      [] OTHER -> "json"

\* f"Error during AI analysis: {str(e)}"
ErrorText == "error"

\* {"type": "wait", "reasoning": ...} of the two fallbacks.
FallbackWait == DesktopAction("wait", None, None, None, None)

\* Mutant of Analyze: no `except json.JSONDecodeError`, so that a reply that
\* is not JSON is handled by the outer `except Exception`.
AnalyzeNoDecodeFallback(reply) ==
    CASE reply.shape \in {"transport_error", "not_json", "cut_json"} ->
            Analysis(TRUE, ErrorText, << >>, "dict", FallbackWait)
      [] reply.shape = "non_object" ->
            Analysis(FALSE, "parsed", << >>, "absent", NoAction)
      [] OTHER ->
            Analysis(TRUE, "parsed", << "parsed" >>, reply.sa, reply.s)

\* The value returned: json.loads(ai_response) as it is, or one of the two
\* fallback dicts.
Analyze(reply) ==
    CASE reply.shape = "transport_error" ->
            Analysis(TRUE, ErrorText, << >>, "dict", FallbackWait)
      [] reply.shape \in {"not_json", "cut_json"} ->
            Analysis(TRUE, ReplyText(reply), << >>, "dict", FallbackWait)
      [] reply.shape = "non_object" ->
            Analysis(FALSE, "parsed", << >>, "absent", NoAction)
      [] OTHER ->
            Analysis(TRUE, "parsed", << "parsed" >>, reply.sa, reply.s)

\* Mutant of AnalyzeRaises: the failure of the request is not caught.
AnalyzeRaisesOnTransport(reply) == reply.shape = "transport_error"

\* Whether the request, or the decoding of its reply, makes
\* analyze_screen_with_ai raise: both except clauses return a dict.
AnalyzeRaises(reply) == FALSE

(***************************************************************************)
(* execute_ai_task.                                                        *)
(***************************************************************************)
\* Mutant of LoopContinues: one cycle too many.
LoopContinuesInclusive(i, m, completed) == i <= m /\ ~completed

\* while iteration < max_iterations and not task_completed
LoopContinues(i, m, completed) == i < m /\ ~completed

\* DesktopAction(action_type=suggested.get('type', 'wait'), x=..., ...)
ActionOf(s) ==
    DesktopAction(IF s.action_type = Missing THEN "wait" ELSE s.action_type,
                  s.x, s.y, s.text, s.key)

\* Mutant of Decision: the test for task_complete is missing, and the
\* action goes to the executor.
DecisionNoComplete(an) ==
    CASE ~an.is_dict -> "raise"
      [] an.is_dict /\ an.sa \in {"absent", "null", "empty"} -> "wait"
      [] an.is_dict /\ an.sa = "bad" -> "raise"
      [] OTHER -> IF an.s.action_type = "wait" THEN "wait" ELSE "execute"

\* What a cycle does with the analysis:
\*   raise     analysis.get or suggested.get raises AttributeError
\*   wait      `not suggested or suggested.get('type') == 'wait'`
\*   complete  action.action_type == 'task_complete'
\*   execute   the action goes to execute_action
Decision(an) ==
    CASE ~an.is_dict -> "raise"
      [] an.is_dict /\ an.sa \in {"absent", "null", "empty"} -> "wait"
      [] an.is_dict /\ an.sa = "bad" -> "raise"
      [] OTHER ->
            IF an.s.action_type = "wait" THEN "wait"
            ELSE IF ActionOf(an.s).action_type = "task_complete" THEN "complete"
            ELSE "execute"

\* The kind the model suggested in this reply, if it suggested one.
SuggestedKind(reply) ==
    IF reply.shape = "object" /\ reply.sa = "dict" THEN reply.s.action_type
    ELSE "none"

\* return True / return False after the loop
TaskOutcome(completed) == IF completed THEN "true" ELSE "false"

\* The task's locals, gone when execute_ai_task is left.
NoTask ==
    /\ iteration' = 0
    /\ max_iterations' = 0
    /\ task_completed' = FALSE
    /\ task_captures' = 0
    /\ task_analyses' = 0
    /\ cycle_execs' = 0
    /\ loop_slept' = 0

\* iteration = 0 and task_completed = False of execute_ai_task(task, m).
TaskBegin(m) ==
    /\ pc = "idle"
    /\ UNCHANGED << perceiveVars, autoVars >>
    /\ pc' = "head"
    /\ iteration' = 0
    /\ task_completed' = FALSE
    /\ max_iterations' = m
    /\ task_result' = "none"
    /\ task_captures' = 0
    /\ task_analyses' = 0
    /\ cycle_execs' = 0
    /\ complete_at' = 0
    /\ loop_slept' = 0
    /\ UNCHANGED << now, limiterVars, current_screenshot, execVars >>

\* execute_ai_task called from main() or a test.
StartTask(m) ==
    /\ TaskBegin(m)
    /\ UNCHANGED frontVars

\* The loop's test holds: iteration += 1, and a new cycle begins.
\* Mutant of NextIteration: the counter stands still.
NextIterationStuck(i) == i

\* iteration += 1
NextIteration(i) == i + 1

LoopHead ==
    /\ pc = "head"
    /\ UNCHANGED << perceiveVars, autoVars, frontVars >>
    /\ LoopContinues(iteration, max_iterations, task_completed)
    /\ iteration' = NextIteration(iteration)
    /\ pc' = "capture"
    /\ cycle_execs' = 0
    /\ loop_slept' = 0
    /\ UNCHANGED << now, limiterVars, current_screenshot, execVars,
                    max_iterations, task_completed, task_result, complete_at,
                    task_captures, task_analyses >>

\* The loop's test fails: the code after the loop returns.
LoopExit ==
    /\ pc = "head"
    /\ UNCHANGED << perceiveVars, autoVars, frontVars >>
    /\ ~LoopContinues(iteration, max_iterations, task_completed)
    /\ task_result' = TaskOutcome(task_completed)
    /\ pc' = "idle"
    /\ NoTask
    /\ UNCHANGED << now, limiterVars, current_screenshot, execVars, complete_at >>

\* self.take_screenshot(): its exception leaves execute_ai_task.
TaskCapture(fault) ==
    /\ pc = "capture"
    /\ UNCHANGED << perceiveVars, autoVars, frontVars >>
    /\ current_screenshot' = ScreenshotAfter(current_screenshot, fault, now)
    /\ IF ScreenshotRaises(fault)
       THEN pc' = "idle" /\ task_result' = "raised" /\ NoTask
       ELSE /\ pc' = "analyze"
            /\ task_captures' = task_captures + 1
            /\ UNCHANGED << iteration, max_iterations, task_completed,
                            task_result, task_analyses, cycle_execs,
                            loop_slept >>
    /\ UNCHANGED << now, limiterVars, execVars, complete_at >>

\* analysis.get / suggested.get on a value that is no dict.
TaskRaise(reply) ==
    /\ pc = "analyze"
    /\ UNCHANGED << perceiveVars, autoVars, frontVars >>
    /\ Decision(Analyze(reply)) = "raise"
    /\ pc' = "idle"
    /\ task_result' = "raised"
    /\ NoTask
    /\ UNCHANGED << now, limiterVars, current_screenshot, execVars, complete_at >>

\* time.sleep(2); continue
TaskWait(reply) ==
    /\ pc = "analyze"
    /\ UNCHANGED << perceiveVars, autoVars, frontVars >>
    /\ Decision(Analyze(reply)) = "wait"
    /\ loop_slept' = ShortSleep
    /\ pc' = "head"
    /\ complete_at' =
          IF SuggestedKind(reply) = "task_complete" THEN iteration ELSE complete_at
    /\ task_analyses' = task_analyses + 1
    /\ UNCHANGED << now, limiterVars, current_screenshot, execVars, iteration,
                    max_iterations, task_completed, task_result, task_captures,
                    cycle_execs >>

\* task_completed = True; break; and the code after the loop returns.
TaskComplete(reply) ==
    /\ pc = "analyze"
    /\ UNCHANGED << perceiveVars, autoVars, frontVars >>
    /\ Decision(Analyze(reply)) = "complete"
    /\ task_result' = TaskOutcome(TRUE)
    /\ pc' = "idle"
    /\ complete_at' =
          IF SuggestedKind(reply) = "task_complete" THEN iteration ELSE complete_at
    /\ NoTask
    /\ UNCHANGED << now, limiterVars, current_screenshot, execVars >>

\* Mutant of AfterExecute: a failed action ends the loop.
AfterExecuteAbort(success) == IF success = "true" THEN "head" ELSE "idle"

\* `if not success:` only logs a warning: the loop goes on to its test
\* whatever execute_action returned.
AfterExecute(success) == "head"

\* success = self.execute_action(action); time.sleep(decision_interval)
TaskExecute(reply, fault, d) ==
    /\ pc = "analyze"
    /\ UNCHANGED << perceiveVars, autoVars, frontVars >>
    /\ Decision(Analyze(reply)) = "execute"
    /\ LET a == ActionOf(Analyze(reply).s)
       IN  /\ fault \in FaultsOf(a)
           /\ d \in ElapsedIn(a, fault)
           /\ Execute(a, fault, d)
    /\ cycle_execs' = cycle_execs + 1
    /\ task_analyses' = task_analyses + 1
    /\ loop_slept' = decision_interval
    /\ pc' = AfterExecute(last_result')
    /\ complete_at' =
          IF SuggestedKind(reply) = "task_complete" THEN iteration ELSE complete_at
    /\ UNCHANGED << iteration, max_iterations, task_completed, task_result,
                    task_captures >>

(***************************************************************************)
(* take_screenshot and analyze_screen_with_ai called by themselves.        *)
(***************************************************************************)
NoReply == Reply("none", "absent", NoAction)
NoAnalysis == Analysis(FALSE, "none", << >>, "absent", NoAction)

\* self.take_screenshot()
TakeScreenshot(fault) ==
    /\ current_screenshot' = ScreenshotAfter(current_screenshot, fault, now)
    /\ capture_fault' = fault
    /\ capture_result' = IF ScreenshotRaises(fault) THEN "raised" ELSE "image"
    /\ UNCHANGED << frontVars, now, limiterVars, execVars, taskVars, autoVars, reply_in,
                    analysis_out, analysis_raised >>

\* self.analyze_screen_with_ai(): `if not self.current_screenshot:
\* self.take_screenshot()` stands before the try block.
AnalyzeScreen(reply, fault) ==
    LET needs == IsNone(current_screenshot)
        failed == needs /\ ScreenshotRaises(fault)
        raised == failed \/ AnalyzeRaises(reply)
    IN  /\ fault \in (IF needs THEN Faults ELSE {"ok"})
        /\ current_screenshot' =
              IF needs THEN ScreenshotAfter(current_screenshot, fault, now)
              ELSE current_screenshot
        /\ capture_fault' = IF needs THEN fault ELSE capture_fault
        /\ capture_result' =
              IF ~needs THEN capture_result
              ELSE IF failed THEN "raised" ELSE "image"
        /\ reply_in' = IF failed THEN NoReply ELSE reply
        /\ analysis_raised' = raised
        /\ analysis_out' = IF raised THEN NoAnalysis ELSE Analyze(reply)
        /\ UNCHANGED << frontVars, now, limiterVars, execVars, taskVars, autoVars >>

(***************************************************************************)
(* start_autonomous_mode and stop.                                         *)
(***************************************************************************)
\* Mutant of AutoContinues: the flag is not looked at.
AutoContinuesAlways(running) == TRUE

\* while self.is_running
AutoContinues(running) == running

\* Mutant of AutoDecision: a suggested task_complete ends the loop, as it
\* ends a task.
AutoDecisionCompletes(an) ==
    CASE ~an.is_dict -> "raise"
      [] an.is_dict /\ an.sa \in {"absent", "null", "empty"} -> "skip"
      [] an.is_dict /\ an.sa = "bad" -> "raise"
      [] OTHER -> IF an.s.action_type = "wait" THEN "skip"
                  ELSE IF an.s.action_type = "task_complete" THEN "raise"
                  ELSE "execute"

\* What a cycle does with the analysis:
\*   raise    analysis.get or suggested.get raises AttributeError
\*   skip     `suggested and suggested.get('type') != 'wait'` is false
\*   execute  the action goes to execute_action
AutoDecision(an) ==
    CASE ~an.is_dict -> "raise"
      [] an.is_dict /\ an.sa \in {"absent", "null", "empty"} -> "skip"
      [] an.is_dict /\ an.sa = "bad" -> "raise"
      [] OTHER -> IF an.s.action_type = "wait" THEN "skip" ELSE "execute"

\* `except Exception` logs, `finally` clears the flag, and the call returns.
AutoEnds(how) ==
    /\ apc' = "off"
    /\ is_running' = FALSE
    /\ auto_end' = how
    /\ auto_execs' = 0

\* self.is_running = True, and the loop's test is next.
AutoBegin ==
    /\ apc = "off"
    /\ is_running' = TRUE
    /\ apc' = "head"
    /\ auto_end' = "none"
    /\ auto_execs' = 0
    /\ stop_at' = "none"
    /\ UNCHANGED << now, limiterVars, current_screenshot, execVars, taskVars,
                    perceiveVars >>

\* start_autonomous_mode called while nothing else runs.
AutoStart ==
    /\ pc = "idle"
    /\ AutoBegin
    /\ UNCHANGED frontVars

\* The loop's test holds: a cycle starts.
AutoHead ==
    /\ apc = "head"
    /\ AutoContinues(is_running)
    /\ apc' = "capture"
    /\ auto_execs' = 0
    /\ UNCHANGED << frontVars, now, limiterVars, current_screenshot, execVars, taskVars,
                    perceiveVars, is_running, auto_end, stop_at >>

\* The loop's test fails: `finally`, and the call returns.
AutoExit ==
    /\ apc = "head"
    /\ ~AutoContinues(is_running)
    /\ AutoEnds("returned")
    /\ UNCHANGED << frontVars, now, limiterVars, current_screenshot, execVars, taskVars,
                    perceiveVars, stop_at >>

\* self.take_screenshot(): its exception ends the loop.
AutoCapture(fault) ==
    /\ apc = "capture"
    /\ current_screenshot' = ScreenshotAfter(current_screenshot, fault, now)
    /\ IF ScreenshotRaises(fault)
       THEN AutoEnds("error")
       ELSE apc' = "analyze" /\ UNCHANGED << is_running, auto_end, auto_execs >>
    /\ UNCHANGED << frontVars, now, limiterVars, execVars, taskVars, perceiveVars, stop_at >>

\* analysis.get or suggested.get raises.
AutoRaise(reply) ==
    /\ apc = "analyze"
    /\ AutoDecision(Analyze(reply)) = "raise"
    /\ AutoEnds("error")
    /\ UNCHANGED << frontVars, now, limiterVars, current_screenshot, execVars, taskVars,
                    perceiveVars, stop_at >>

\* Nothing to execute: time.sleep(decision_interval)
AutoSkip(reply) ==
    /\ apc = "analyze"
    /\ AutoDecision(Analyze(reply)) = "skip"
    /\ apc' = "head"
    /\ UNCHANGED << frontVars, now, limiterVars, current_screenshot, execVars, taskVars,
                    perceiveVars, is_running, auto_end, auto_execs, stop_at >>

\* self.execute_action(action); time.sleep(decision_interval)
AutoExecute(reply, fault, d) ==
    /\ apc = "analyze"
    /\ AutoDecision(Analyze(reply)) = "execute"
    /\ fault \in FaultsOf(ActionOf(Analyze(reply).s))
    /\ d \in ElapsedIn(ActionOf(Analyze(reply).s), fault)
    /\ Execute(ActionOf(Analyze(reply).s), fault, d)
    /\ auto_execs' = auto_execs + 1
    /\ apc' = "head"
    /\ UNCHANGED << frontVars, taskVars, perceiveVars, is_running, auto_end, stop_at >>

\* stop(), called by another thread than the loop's.
Stop ==
    /\ is_running' = FALSE
    /\ stop_at' = apc
    /\ UNCHANGED << frontVars, now, limiterVars, current_screenshot, execVars, taskVars,
                    perceiveVars, apc, auto_end, auto_execs >>

\* KeyboardInterrupt raised in the loop's thread between two calls or in
\* time.sleep(decision_interval): `except KeyboardInterrupt`, `finally`.
AutoInterrupt ==
    /\ apc \in {"head", "capture", "analyze"}
    /\ AutoEnds("interrupted")
    /\ UNCHANGED << frontVars, now, limiterVars, current_screenshot, execVars,
                    taskVars, perceiveVars, stop_at >>

\* KeyboardInterrupt raised inside the backend call or the sleep of
\* execute_action: check_rate_limit has answered true, the branch's call is
\* under way, `except Exception` does not catch it (KeyboardInterrupt is a
\* BaseException), so the lines after the chain are not run and the
\* exception reaches start_autonomous_mode.  A screenshot action is cut
\* before or after take_screenshot has stored the image (shot_done).
AutoExecuteInterrupted(reply, shot_done) ==
    LET a == ActionOf(Analyze(reply).s)
        pruned == Prune(action_timestamps, now)
    IN  /\ apc = "analyze"
        /\ AutoDecision(Analyze(reply)) = "execute"
        /\ WithinLimit(pruned, max_actions_per_minute)
        /\ BackendCall(a) # NoCall \/ WaitSleep(a) > 0
        /\ shot_done => a.action_type = "screenshot"
        /\ action_timestamps' = pruned
        /\ current_screenshot' =
              IF shot_done THEN Some(now) ELSE current_screenshot
        /\ last_action' = a
        /\ last_allow' = TRUE
        /\ last_result' = "interrupted"
        /\ last_backend' = BackendCall(a)
        /\ last_raised' = TRUE
        /\ wait_slept' = IF WaitSleep(a) > 0 THEN WaitSleep(a) ELSE 0
        /\ AutoEnds("interrupted")
        /\ UNCHANGED << frontVars, now, max_actions_per_minute, interaction_count,
                        returned_true, taskVars, perceiveVars, stop_at >>

(***************************************************************************)
(* DesktopAction.confidence, in tenths.                                    *)
(***************************************************************************)
\* config["ai"]["confidence_threshold"], 0.7 by default.
confidence_threshold == 7

\* confidence: float = 0.0, and values below and above the threshold.
Confidences == {0, 5, 9}

\* A suggested_action dict with a "confidence" entry.
WithConfidence(s, c) ==
    [action_type |-> s.action_type, x |-> s.x, y |-> s.y, text |-> s.text,
     key |-> s.key, confidence |-> c]

\* Mutant of ConfidenceGate: actions below the threshold are refused.
ConfidenceGateThreshold(c) == c >= confidence_threshold

\* execute_action reads neither action.confidence nor the threshold: no
\* confidence keeps an action from the rate check and the if/elif chain.
ConfidenceGate(c) == TRUE

\* execute_action(a) for an action built with confidence=c.
ExecuteConfident(a, c, fault, d) ==
    /\ pc = "idle"
    /\ d \in ElapsedIn(a, fault)
    /\ IF ConfidenceGate(c)
       THEN Execute(a, fault, d)
       ELSE /\ last_action' = a
            /\ last_result' = "false"
            /\ UNCHANGED << now, limiterVars, current_screenshot, last_allow,
                            last_backend, last_raised, wait_slept, returned_true >>
    /\ UNCHANGED << taskVars, perceiveVars, autoVars, frontVars >>

(***************************************************************************)
(* Construction: load_config, setup_openai, and the fields set by __init__.*)
(***************************************************************************)
\* The api_key values of the configuration: none (also the default written
\* when no config file exists), or a key.
Keys == {"", "sk"}

\* The configuration's max_actions_per_minute: absent, or a number (setup.py
\* writes 25 where __init__ has 30).
ConfigCeilings == {None, Some(MaxActionsPerMinute - 1), Some(MaxActionsPerMinute)}

\* Mutant of KeyMissing: the key is not looked at.
KeyMissingNever(key) == FALSE

\* if not api_key
KeyMissing(key) == key = ""

\* self.max_actions_per_minute = 30, whatever the configuration holds.
CeilingOf(config) == MaxActionsPerMinute

\* AIDesktopController(config_path): setup_openai calls sys.exit(1) when the
\* key is missing or the test request fails; SystemExit is no Exception, so
\* that neither main() nor initialize_ai_controller catches it.
Construct(connect_ok) ==
    /\ proc = "starting"
    /\ IF KeyMissing(api_key) \/ ~connect_ok
       THEN proc' = "exited" /\ UNCHANGED max_actions_per_minute
       ELSE proc' = "ready" /\ max_actions_per_minute' = CeilingOf(config_ceiling)
    /\ UNCHANGED << now, action_timestamps, interaction_count, current_screenshot,
                    execVars, taskVars, perceiveVars, autoVars, emitVars, hostVars, api_key,
                    config_ceiling, webVars, raceVars, statusVars >>

\* Time passes.
Tick(d) ==
    /\ now + d <= MaxTime
    /\ UNCHANGED << perceiveVars, autoVars, frontVars >>
    /\ now' = now + d
    /\ UNCHANGED << limiterVars, current_screenshot, execVars, taskVars >>

\* The fields of a controller on which nothing has been called, and no
\* request made to the front end.
NothingCalled ==
    /\ now = 0
    /\ action_timestamps = << >>
    /\ interaction_count = 0
    /\ current_screenshot = None
    /\ last_action = NoAction
    /\ last_result = "none"
    /\ last_allow = TRUE
    /\ last_backend = NoCall
    /\ last_raised = FALSE
    /\ wait_slept = 0
    /\ returned_true = 0
    /\ pc = "idle"
    /\ iteration = 0
    /\ max_iterations = 0
    /\ task_completed = FALSE
    /\ task_result = "none"
    /\ task_captures = 0
    /\ task_analyses = 0
    /\ cycle_execs = 0
    /\ complete_at = 0
    /\ loop_slept = 0
    /\ capture_fault = "none"
    /\ capture_result = "none"
    /\ reply_in = NoReply
    /\ analysis_out = NoAnalysis
    /\ analysis_raised = FALSE
    /\ is_running = FALSE
    /\ apc = "off"
    /\ auto_end = "none"
    /\ auto_execs = 0
    /\ stop_at = "none"
    /\ web_running = FALSE
    /\ web_answer = "none"
    /\ worker = "none"
    /\ stop_pending = FALSE
    /\ in_call = [c \in Callers |-> NoAction]
    /\ count_read = [c \in Callers |-> None]
    /\ pruned_read = [c \in Callers |-> None]
    /\ status_report = None
    /\ info_count = None
    /\ task_thread = "none"
    /\ task_events = 0
    /\ task_event = "none"
    /\ job_lock = "none"
    /\ job_name = None
    /\ job_proc = None
    /\ job_log = None
    /\ job_running = {}
    /\ job_count = 0
    /\ host_thread = [t \in HostThreads |-> HostIdle("none")]

\* A constructed controller.
Init ==
    /\ NothingCalled
    /\ max_actions_per_minute = MaxActionsPerMinute
    /\ proc = "ready"
    /\ api_key = "sk"
    /\ config_ceiling = None

Next ==
    \/ \E a \in Actions : \E fault \in FaultsOf(a) : \E d \in Elapsed :
          ExecuteAction(a, fault, d)
    \/ \E m \in 0 .. MaxIterations : StartTask(m)
    \/ LoopHead
    \/ LoopExit
    \/ \E fault \in Faults : TaskCapture(fault)
    \/ \E reply \in Responses : TaskRaise(reply)
    \/ \E reply \in Responses : TaskWait(reply)
    \/ \E reply \in Responses : TaskComplete(reply)
    \/ \E reply \in Responses : \E fault \in Faults : \E d \in Elapsed :
          TaskExecute(reply, fault, d)
    \/ \E d \in TimeSteps : Tick(d)

Spec == Init /\ [][Next]_vars

\* The steps of a running execute_ai_task.  The thread that called it goes
\* on for as long as each call it makes returns.
TaskStep ==
    \/ LoopHead
    \/ LoopExit
    \/ \E fault \in Faults : TaskCapture(fault)
    \/ \E reply \in Responses : TaskRaise(reply)
    \/ \E reply \in Responses : TaskWait(reply)
    \/ \E reply \in Responses : TaskComplete(reply)
    \/ \E reply \in Responses : \E fault \in Faults : \E d \in Elapsed :
          TaskExecute(reply, fault, d)

\* The controller used for tasks only, as by `--task` in main(): nothing
\* but execute_ai_task is called on it.
TaskNext ==
    \/ \E m \in 0 .. MaxIterations : StartTask(m)
    \/ TaskStep
    \/ \E d \in TimeSteps : Tick(d)

TaskSpec == Init /\ [][TaskNext]_vars /\ WF_vars(TaskStep)

\* The controller used for looking only, as by `--screenshot` in main().
PerceiveNext ==
    \/ \E fault \in Faults : TakeScreenshot(fault)
    \/ \E reply \in Responses : \E fault \in Faults : AnalyzeScreen(reply, fault)
    \/ \E d \in TimeSteps : Tick(d)

PerceiveSpec == Init /\ [][PerceiveNext]_vars

\* A process before the controller is constructed.
StartupInit ==
    /\ NothingCalled
    /\ max_actions_per_minute = 0
    /\ proc = "starting"
    /\ api_key \in Keys
    /\ config_ceiling \in ConfigCeilings

\* The actions and replies used after construction.
StartupActions ==
    {a \in Actions : \/ a.action_type = "screenshot"
                     \/ a.action_type = "click" /\ a.x = Some(0) /\ a.y = Some(7)}
StartupReplies == {r \in Responses : r.shape # "object" \/ r.sa # "dict"}

\* A process from its start: the controller is constructed, and then its
\* methods are called one after the other; without a controller object
\* there is nothing to call them on.
StartupNext ==
    \/ \E connect_ok \in BOOLEAN : Construct(connect_ok)
    \/ proc = "ready" /\ \E a \in StartupActions : \E fault \in FaultsOf(a) :
          \E d \in Elapsed : ExecuteAction(a, fault, d)
    \/ proc = "ready" /\ \E fault \in Faults : TakeScreenshot(fault)
    \/ proc = "ready" /\ \E reply \in StartupReplies : \E fault \in Faults :
          AnalyzeScreen(reply, fault)
    \/ proc = "ready" /\ \E d \in TimeSteps : Tick(d)

StartupSpec == StartupInit /\ [][StartupNext]_vars

\* The actions and replies used to compare confidences.
ConfActions ==
    {a \in Actions : \/ a.action_type \in {"screenshot", "unknown"}
                     \/ a.action_type = "click" /\ a.x = Some(0) /\ a.y = Some(7)}
ConfSuggestions ==
    ConfActions \cup {a \in Actions : a.action_type = "task_complete" \/
                                      (a.action_type = "wait" /\ a.x = None)}
ConfReplies ==
    {Reply("object", "dict", WithConfidence(s, c)) :
        s \in ConfSuggestions, c \in Confidences}

\* Single actions and tasks whose actions and suggestions carry a
\* confidence.
ConfNext ==
    \/ \E a \in ConfActions : \E c \in Confidences : \E fault \in FaultsOf(a) :
          \E d \in Elapsed : ExecuteConfident(a, c, fault, d)
    \/ \E m \in 0 .. MaxIterations : StartTask(m)
    \/ LoopHead
    \/ LoopExit
    \/ \E fault \in Faults : TaskCapture(fault)
    \/ \E reply \in ConfReplies : TaskWait(reply)
    \/ \E reply \in ConfReplies : TaskComplete(reply)
    \/ \E reply \in ConfReplies : \E fault \in Faults : \E d \in Elapsed :
          TaskExecute(reply, fault, d)
    \/ \E d \in TimeSteps : Tick(d)

ConfSpec == Init /\ [][ConfNext]_vars

\* The steps of a running start_autonomous_mode.
AutoStep ==
    \/ AutoHead
    \/ AutoExit
    \/ \E fault \in Faults : AutoCapture(fault)
    \/ \E reply \in Responses : AutoRaise(reply)
    \/ \E reply \in Responses : AutoSkip(reply)
    \/ \E reply \in Responses : \E fault \in Faults : \E d \in Elapsed :
          AutoExecute(reply, fault, d)

\* The controller in autonomous mode: one thread calls
\* start_autonomous_mode, another may call stop() at any moment.
AutoNext ==
    \/ AutoStart
    \/ AutoStep
    \/ Stop
    \/ \E d \in TimeSteps : Tick(d)

AutoSpec == Init /\ [][AutoNext]_vars /\ WF_vars(AutoStep)

\* The controller in autonomous mode started from a terminal (main,
\* --autonomous): Ctrl+C raises KeyboardInterrupt in the loop's thread at
\* any point of a cycle, and stop() remains callable.
InterruptNext ==
    \/ AutoStart
    \/ AutoStep
    \/ Stop
    \/ AutoInterrupt
    \/ \E reply \in Responses : \E shot_done \in BOOLEAN :
          AutoExecuteInterrupted(reply, shot_done)
    \/ \E d \in TimeSteps : Tick(d)

InterruptSpec == Init /\ [][InterruptNext]_vars

(***************************************************************************)
(* web_interface.py: the dashboard's handlers on the one shared            *)
(* controller.  Each request is served in its own thread; a task and the   *)
(* autonomous loop run in daemon threads the handlers start.               *)
(***************************************************************************)
\* Mutant of ToggleBranch: a stop request is carried out whatever the
\* dashboard's flag.
ToggleBranchStopsAlways(enable, running) ==
    IF enable THEN (IF running THEN "no_change" ELSE "started") ELSE "stopped"

\* if enable and not is_running / elif not enable and is_running / the
\* final return: the 'status' of the answer.
ToggleBranch(enable, running) ==
    CASE enable /\ ~running -> "started"
      [] ~enable /\ running -> "stopped"
      [] OTHER -> "no_change"

\* POST /api/autonomous, enable=true, answered 'started': both flags are
\* set and the worker thread is started.  (One worker thread at a time: a
\* start while an earlier worker is still alive is not followed.)
WebStart ==
    /\ ToggleBranch(TRUE, web_running) = "started"
    /\ web_answer' = "started"
    /\ worker = "none"
    /\ web_running' = TRUE
    /\ is_running' = TRUE
    /\ worker' = "spawned"
    /\ stop_pending' = FALSE
    /\ UNCHANGED << now, limiterVars, current_screenshot, execVars, taskVars,
                    perceiveVars, apc, auto_end, auto_execs, stop_at, procVars, emitVars, hostVars,
                    raceVars, statusVars >>

\* POST /api/autonomous, enable=false, answered 'stopped': the global flag
\* is cleared and ai_controller.stop() is called.
WebStop ==
    /\ ToggleBranch(FALSE, web_running) = "stopped"
    /\ web_answer' = "stopped"
    /\ web_running' = FALSE
    /\ is_running' = FALSE
    /\ stop_at' = apc
    /\ stop_pending' = TRUE
    /\ UNCHANGED << now, limiterVars, current_screenshot, execVars, taskVars,
                    perceiveVars, apc, auto_end, auto_execs, worker, procVars, emitVars, hostVars,
                    raceVars, statusVars >>

\* autonomous_worker reaches ai_controller.start_autonomous_mode(), whose
\* first assignment is self.is_running = True.
WorkerBegin ==
    /\ worker = "spawned"
    /\ AutoBegin
    /\ worker' = "called"
    /\ UNCHANGED << procVars, emitVars, hostVars, raceVars, statusVars, web_running, stop_pending,
                    web_answer >>

\* start_autonomous_mode has returned: the worker's `finally` clears the
\* global flag and the thread ends.
WorkerFinish ==
    /\ worker = "called"
    /\ apc = "off"
    /\ web_running' = FALSE
    /\ worker' = "none"
    /\ UNCHANGED << now, limiterVars, current_screenshot, execVars, taskVars,
                    perceiveVars, autoVars, procVars, emitVars, hostVars, raceVars, statusVars,
                    stop_pending, web_answer >>

\* POST /api/autonomous answered 'no_change': neither branch is taken.
WebNoChange(enable) ==
    /\ ToggleBranch(enable, web_running) = "no_change"
    /\ web_answer' = "no_change"
    /\ UNCHANGED << now, limiterVars, current_screenshot, execVars, taskVars,
                    perceiveVars, autoVars, procVars, emitVars, hostVars, raceVars, statusVars,
                    web_running, worker, stop_pending >>

\* POST /api/autonomous with the given enable.
ToggleAutonomous(enable) ==
    \/ enable /\ WebStart
    \/ ~enable /\ WebStop
    \/ WebNoChange(enable)

\* The replies the dashboard's loops get.
WebSuggestions ==
    {a \in Actions : \/ a.action_type = "task_complete"
                     \/ a.action_type = "wait" /\ a.x = None
                     \/ a.action_type = "click" /\ a.x = Some(0) /\ a.y = Some(7)}
WebReplies ==
    {Reply("object", sa, NoAction) : sa \in {"absent", "bad"}}
    \cup {Reply("object", "dict", s) : s \in WebSuggestions}
WebFaults == {"ok", "backend_error"}

\* The steps of the worker thread.
WorkerStep ==
    \/ WorkerBegin
    \/ AutoHead
    \/ AutoExit
    \/ \E fault \in WebFaults : AutoCapture(fault)
    \/ \E reply \in WebReplies : AutoRaise(reply)
    \/ \E reply \in WebReplies : AutoSkip(reply)
    \/ \E reply \in WebReplies : \E fault \in WebFaults : \E d \in Elapsed :
          AutoExecute(reply, fault, d)
    \/ WorkerFinish

\* The steps of a task thread started by POST /api/task.
WebTaskStep ==
    \/ LoopHead
    \/ LoopExit
    \/ \E fault \in WebFaults : TaskCapture(fault)
    \/ \E reply \in WebReplies : TaskRaise(reply)
    \/ \E reply \in WebReplies : TaskWait(reply)
    \/ \E reply \in WebReplies : TaskComplete(reply)
    \/ \E reply \in WebReplies : \E fault \in WebFaults : \E d \in Elapsed :
          TaskExecute(reply, fault, d)

\* The dashboard: requests arrive in any order and at any moment, and the
\* threads they start interleave at the grain of the loops' calls.
WebNext ==
    \/ WebStart
    \/ WebStop
    \/ WorkerStep
    \/ StartTask(MaxIterations)
    \/ WebTaskStep
    \/ \E fault \in WebFaults : TakeScreenshot(fault)
    \/ \E d \in TimeSteps : Tick(d)

\* A started thread keeps being scheduled.
WebSpec == Init /\ [][WebNext]_vars /\ WF_vars(WorkerStep) /\ WF_vars(WebTaskStep)

\* Start and stop requests in any order, with a worker whose cycles find
\* nothing to execute or end on an error.
ToggleNext ==
    \/ \E enable \in BOOLEAN : ToggleAutonomous(enable)
    \/ WorkerBegin
    \/ AutoHead
    \/ AutoExit
    \/ \E fault \in WebFaults : AutoCapture(fault)
    \/ \E reply \in WebReplies : AutoRaise(reply)
    \/ \E reply \in WebReplies : AutoSkip(reply)
    \/ WorkerFinish
    \/ \E d \in TimeSteps : Tick(d)

ToggleSpec == Init /\ [][ToggleNext]_vars

(***************************************************************************)
(* POST /api/task: the run_task thread and its task_completed event.       *)
(***************************************************************************)
\* The request is answered 'started': the thread is started and calls
\* ai_controller.execute_ai_task(task).
WebTaskAccept ==
    /\ task_thread = "none"
    /\ TaskBegin(MaxIterations)
    /\ task_thread' = "running"
    /\ task_events' = 0
    /\ task_event' = "none"
    /\ UNCHANGED << procVars, webVars, raceVars, statusVars, hostVars >>

\* execute_ai_task has returned: socketio.emit('task_completed', ...) with
\* 'success': result, and the thread ends.
WebTaskEmit ==
    /\ task_thread = "running"
    /\ pc = "idle"
    /\ task_result \in {"true", "false"}
    /\ task_events' = task_events + 1
    /\ task_event' = task_result
    /\ task_thread' = "none"
    /\ UNCHANGED << now, limiterVars, current_screenshot, execVars, taskVars,
                    perceiveVars, autoVars, procVars, webVars, raceVars,
                    statusVars, hostVars >>

\* execute_ai_task has raised: run_task has no handler, the exception ends
\* the thread before the emit.
WebTaskDie ==
    /\ task_thread = "running"
    /\ pc = "idle"
    /\ task_result = "raised"
    /\ task_thread' = "none"
    /\ UNCHANGED << now, limiterVars, current_screenshot, execVars, taskVars,
                    perceiveVars, autoVars, procVars, webVars, raceVars,
                    statusVars, hostVars, task_events, task_event >>

\* The steps of the run_task thread.
RunTaskStep ==
    \/ WebTaskStep
    \/ WebTaskEmit
    \/ WebTaskDie

\* Tasks submitted to the dashboard one after the other.
EmitNext ==
    \/ WebTaskAccept
    \/ RunTaskStep
    \/ \E d \in TimeSteps : Tick(d)

\* The thread of an accepted task keeps being scheduled.
EmitSpec == Init /\ [][EmitNext]_vars /\ WF_vars(RunTaskStep)

(***************************************************************************)
(* src/host_gui.py: the host panel's background compose job.  Each POST    *)
(* /action is served by a thread that calls start_compose_job.             *)
(***************************************************************************)
\* What the panel's steps leave alone: the controller and its dashboard.
controllerVars ==
    << now, limiterVars, current_screenshot, execVars, taskVars, perceiveVars,
       autoVars, procVars, webVars, raceVars, statusVars, emitVars >>

\* Mutant of LockFree: `with _job_lock` does not exclude anybody.
LockFreeAlways(holder) == TRUE

\* `with _job_lock:` is entered when no thread holds the lock.
LockFree(holder) == holder = "none"

\* _job_proc and _job_proc.poll() is None
JobBusy(handle, running) == handle # None /\ Val(handle) \in running

\* LOG_DIR / f"{name}.log"
LogPath(name) == << "logs", name, "log" >>

\* Thread t calls start_compose_job(name, args) and enters the lock.
HostEnter(t, name) ==
    /\ job_count < MaxJobs
    /\ host_thread[t].at = "idle"
    /\ LockFree(job_lock)
    /\ job_lock' = t
    /\ host_thread' =
          [host_thread EXCEPT ![t] = [at |-> "locked", name |-> name, ret |-> "none"]]
    /\ UNCHANGED << controllerVars, job_name, job_proc, job_log, job_running,
                    job_count >>

\* The test under the lock: `return False` while the current job's process
\* has not exited, else on to the Popen.
HostCheck(t) ==
    /\ host_thread[t].at = "locked"
    /\ IF JobBusy(job_proc, job_running)
       THEN /\ host_thread' = [host_thread EXCEPT ![t] = HostIdle("false")]
            /\ job_lock' = "none"
       ELSE /\ host_thread' = [host_thread EXCEPT ![t].at = "spawn"]
            /\ UNCHANGED job_lock
    /\ UNCHANGED << controllerVars, job_name, job_proc, job_log, job_running,
                    job_count >>

\* subprocess.Popen, the pump thread, and the three assignments; a Popen
\* that raises leaves the lock with nothing assigned.
HostSpawn(t, popen_ok) ==
    /\ host_thread[t].at = "spawn"
    /\ job_lock' = "none"
    /\ IF popen_ok
       THEN /\ job_count' = job_count + 1
            /\ job_running' = job_running \cup {job_count + 1}
            /\ job_name' = Some(host_thread[t].name)
            /\ job_proc' = Some(job_count + 1)
            /\ job_log' = Some(LogPath(host_thread[t].name))
            /\ host_thread' = [host_thread EXCEPT ![t] = HostIdle("true")]
       ELSE /\ host_thread' = [host_thread EXCEPT ![t] = HostIdle("raised")]
            /\ UNCHANGED << job_name, job_proc, job_log, job_running, job_count >>
    /\ UNCHANGED controllerVars

\* A compose process exits.
JobExit(p) ==
    /\ p \in job_running
    /\ job_running' = job_running \ {p}
    /\ UNCHANGED << controllerVars, job_lock, job_name, job_proc, job_log,
                    job_count, host_thread >>

\* The host panel: concurrent POST /action requests and the processes they
\* start.
HostNext ==
    \/ \E t \in HostThreads : \E name \in JobNames : HostEnter(t, name)
    \/ \E t \in HostThreads : HostCheck(t)
    \/ \E t \in HostThreads : \E popen_ok \in BOOLEAN : HostSpawn(t, popen_ok)
    \/ \E p \in 1 .. MaxJobs + 1 : JobExit(p)

HostSpec == Init /\ [][HostNext]_vars

(***************************************************************************)
(* execute_action called by two threads on the shared controller.  No      *)
(* lock is taken: a thread can be descheduled between check_rate_limit     *)
(* and the lines that count and record the action.                         *)
(***************************************************************************)
\* The actions the two callers submit.
RaceActions ==
    {a \in Actions : a.action_type = "click" /\ a.x = Some(0) /\ a.y = Some(7)}

\* Caller c enters execute_action(a): check_rate_limit prunes the list and
\* answers; on false the call returns at once.
RaceCheck(c, a) ==
    LET pruned == Prune(action_timestamps, now)
        allow == WithinLimit(pruned, max_actions_per_minute)
    IN  /\ in_call[c] = NoAction
        /\ pruned_read[c] = None
        /\ UNCHANGED << count_read, pruned_read >>
        /\ action_timestamps' = pruned
        /\ last_action' = a
        /\ last_allow' = allow
        /\ IF allow
           THEN /\ in_call' = [in_call EXCEPT ![c] = a]
                /\ UNCHANGED << last_result, last_backend, last_raised >>
           ELSE /\ last_result' = "false"
                /\ last_backend' = NoCall
                /\ last_raised' = FALSE
                /\ UNCHANGED in_call
        /\ UNCHANGED << now, max_actions_per_minute, interaction_count,
                        current_screenshot, wait_slept, returned_true, taskVars,
                        perceiveVars, autoVars, procVars, emitVars, hostVars, webVars, statusVars >>

\* Caller c runs the try block of the call it was let into: the backend
\* call, then the counter and the timestamp.
RaceAct(c, fault) ==
    LET a == in_call[c]
        ok == Succeeds(a, fault)
    IN  /\ a # NoAction
        /\ count_read[c] = None
        /\ UNCHANGED << count_read, pruned_read >>
        /\ fault \in FaultsOf(a)
        /\ interaction_count' = CountAfter(interaction_count, TRUE, ok)
        /\ action_timestamps' = TimestampsAfter(action_timestamps, TRUE, ok, now)
        /\ last_action' = a
        /\ last_result' = IF ok THEN "true" ELSE "false"
        /\ last_backend' = BackendCall(a)
        /\ last_raised' = Raises(a, fault)
        /\ returned_true' = IF ok THEN returned_true + 1 ELSE returned_true
        /\ in_call' = [in_call EXCEPT ![c] = NoAction]
        /\ UNCHANGED << now, max_actions_per_minute, current_screenshot,
                        last_allow, wait_slept, taskVars, perceiveVars, autoVars,
                        procVars, emitVars, hostVars, webVars, statusVars >>

\* The calls that have returned true after which no thread is descheduled
\* inside a statement any more.
MaxRacedCalls == MaxActionsPerMinute + 1

\* Caller c enters execute_action(a) and is descheduled inside
\* check_rate_limit, after the list comprehension has built the new list
\* and before it is assigned to self.action_timestamps.
RacePruneRead(c, a) ==
    /\ returned_true < MaxRacedCalls
    /\ in_call[c] = NoAction
    /\ pruned_read[c] = None
    /\ pruned_read' =
          [pruned_read EXCEPT ![c] =
              Some([action |-> a, kept |-> Prune(action_timestamps, now)])]
    /\ UNCHANGED << now, limiterVars, current_screenshot, execVars, taskVars,
                    perceiveVars, autoVars, procVars, emitVars, hostVars, webVars, statusVars,
                    in_call, count_read >>

\* Caller c resumes: the list it built is assigned, and its length is
\* compared with the ceiling.
RacePruneStore(c) ==
    LET a == Val(pruned_read[c]).action
        kept == Val(pruned_read[c]).kept
        allow == WithinLimit(kept, max_actions_per_minute)
    IN  /\ pruned_read[c] # None
        /\ pruned_read' = [pruned_read EXCEPT ![c] = None]
        /\ action_timestamps' = kept
        /\ last_action' = a
        /\ last_allow' = allow
        /\ IF allow
           THEN /\ in_call' = [in_call EXCEPT ![c] = a]
                /\ UNCHANGED << last_result, last_backend, last_raised >>
           ELSE /\ last_result' = "false"
                /\ last_backend' = NoCall
                /\ last_raised' = FALSE
                /\ UNCHANGED in_call
        /\ UNCHANGED << now, max_actions_per_minute, interaction_count,
                        current_screenshot, wait_slept, returned_true, taskVars,
                        perceiveVars, autoVars, procVars, emitVars, hostVars, webVars, statusVars,
                        count_read >>

\* Caller c has made its backend call and is descheduled inside
\* `self.interaction_count += 1`, after the load and before the store.
RaceLoad(c) ==
    LET a == in_call[c]
    IN  /\ returned_true < MaxRacedCalls
        /\ a # NoAction
        /\ count_read[c] = None
        /\ count_read' = [count_read EXCEPT ![c] = Some(interaction_count)]
        /\ last_action' = a
        /\ last_backend' = BackendCall(a)
        /\ last_raised' = FALSE
        /\ UNCHANGED << now, limiterVars, current_screenshot, last_result,
                        last_allow, wait_slept, returned_true, taskVars,
                        perceiveVars, autoVars, procVars, emitVars, hostVars, webVars, statusVars,
                        in_call, pruned_read >>

\* Caller c resumes: the sum is stored, the timestamp appended, and the
\* call returns True.
RaceStore(c) ==
    /\ count_read[c] # None
    /\ interaction_count' = Val(count_read[c]) + 1
    /\ action_timestamps' = Append(action_timestamps, now)
    /\ last_action' = in_call[c]
    /\ last_result' = "true"
    /\ returned_true' = returned_true + 1
    /\ in_call' = [in_call EXCEPT ![c] = NoAction]
    /\ count_read' = [count_read EXCEPT ![c] = None]
    /\ UNCHANGED << now, max_actions_per_minute, current_screenshot, last_allow,
                    last_backend, last_raised, wait_slept, taskVars,
                    perceiveVars, autoVars, procVars, emitVars, hostVars, webVars, statusVars,
                    pruned_read >>

\* Single actions from the dashboard while a loop executes its own.
RaceNext ==
    \/ \E c \in Callers : \E a \in RaceActions : RaceCheck(c, a)
    \/ \E c \in Callers : \E fault \in Faults : RaceAct(c, fault)
    \/ \E c \in Callers : \E a \in RaceActions : RacePruneRead(c, a)
    \/ \E c \in Callers : RacePruneStore(c)
    \/ \E c \in Callers : RaceLoad(c)
    \/ \E c \in Callers : RaceStore(c)
    \/ \E d \in TimeSteps : Tick(d)

RaceSpec == Init /\ [][RaceNext]_vars

(***************************************************************************)
(* The operations that read the session state: get_system_info, and the    *)
(* dashboard's GET /api/status and POST /api/config.                       *)
(***************************************************************************)
\* Mutant of CountAfterInfo: reading the counter counts as an interaction.
CountAfterInfoCounted(count) == count + 1

\* "interactions_count": self.interaction_count is a read.
CountAfterInfo(count) == count

\* get_system_info()
GetSystemInfo ==
    /\ info_count' = Some(interaction_count)
    /\ interaction_count' = CountAfterInfo(interaction_count)
    /\ UNCHANGED << now, max_actions_per_minute, action_timestamps,
                    current_screenshot, execVars, taskVars, perceiveVars,
                    autoVars, procVars, emitVars, hostVars, webVars, raceVars, status_report >>

\* GET /api/status: get_system_info(), then the dashboard's flag and the
\* controller's counter.
GetStatus ==
    /\ info_count' = Some(interaction_count)
    /\ interaction_count' = CountAfterInfo(interaction_count)
    /\ status_report' =
          Some([is_running |-> web_running,
                interaction_count |-> CountAfterInfo(interaction_count)])
    /\ UNCHANGED << now, max_actions_per_minute, action_timestamps,
                    current_screenshot, execVars, taskVars, perceiveVars,
                    autoVars, procVars, emitVars, hostVars, webVars, raceVars >>

\* POST /api/config: ai_controller.config.update(new_config) and the file
\* is rewritten; the controller's fields are not set again.
HandleConfig(ceiling) ==
    /\ config_ceiling' = ceiling
    /\ UNCHANGED << now, limiterVars, current_screenshot, execVars, taskVars,
                    perceiveVars, autoVars, emitVars, hostVars, proc, api_key, webVars, raceVars,
                    statusVars >>

\* The replies of the analyses made next to the single actions.
FrameReplies == {r \in WebReplies : r.sa = "absent"}

\* The dashboard's requests and the controller's own operations around
\* single actions (POST /api/action) and an autonomous worker whose cycles
\* find nothing to execute, all within one second of the clock.
FrameNext ==
    \/ \E a \in RaceActions : ExecuteAction(a, "ok", 0)
    \/ \E fault \in WebFaults : TakeScreenshot(fault)
    \/ \E reply \in FrameReplies : AnalyzeScreen(reply, "ok")
    \/ Stop
    \/ GetSystemInfo
    \/ GetStatus
    \/ \E ceiling \in ConfigCeilings : HandleConfig(ceiling)
    \/ WebStart
    \/ WebStop
    \/ WorkerBegin
    \/ AutoHead
    \/ AutoExit
    \/ AutoCapture("ok")
    \/ \E reply \in FrameReplies : AutoSkip(reply)
    \/ WorkerFinish

FrameSpec == Init /\ [][FrameNext]_vars

(***************************************************************************)
(* The claims.                                                             *)
(***************************************************************************)
\* A step that is one call of execute_action: made directly (the only step
\* that stays idle and changes more than the clock), or by a cycle of the
\* task loop.
ExecCall ==
    \/ /\ pc = "idle" /\ pc' = "idle"
       /\ << limiterVars, current_screenshot, execVars >>' #
             << limiterVars, current_screenshot, execVars >>
    \/ pc = "analyze" /\ pc' = "head" /\ cycle_execs' = cycle_execs + 1

\* The positions of the timestamps that are less than 60 seconds old.
InWindow == {i \in DOMAIN action_timestamps : now - action_timestamps[i] < Window}

\* The timestamps the rate check leaves: the last n of the (ascending) list.
LastOf(ts, n) == SubSeq(ts, Len(ts) - n + 1, Len(ts))

\* C1: in every reachable state at most max_actions_per_minute of the
\* recorded timestamps lie within the trailing 60 seconds.
C1_RateLimitInvariant ==
    Cardinality(InWindow) <= max_actions_per_minute

\* The window is full and a call has been turned away.
C1_Witness ==
    /\ Cardinality(InWindow) = max_actions_per_minute
    /\ last_allow = FALSE
    /\ interaction_count > max_actions_per_minute

\* C2: a call's rate check drops exactly the timestamps that are 60 seconds
\* old or older, keeps the others in order, and answers true iff fewer than
\* the ceiling remain; with the ceiling reached inside the window it answers
\* false.
C2_CheckRateLimit ==
    [][ExecCall =>
        LET n == Cardinality(InWindow)
            kept == IF last_result' = "true"
                    THEN SubSeq(action_timestamps', 1, Len(action_timestamps') - 1)
                    ELSE action_timestamps'
        IN  /\ kept = LastOf(action_timestamps, n)
            /\ \A i \in DOMAIN kept : now - kept[i] < Window
            /\ last_allow' = (n < max_actions_per_minute)
            /\ (n >= max_actions_per_minute => last_allow' = FALSE)]_vars

\* A call is turned away after older timestamps have been discarded.
C2_Witness ==
    /\ last_allow = FALSE
    /\ interaction_count > max_actions_per_minute
    /\ Len(action_timestamps) = max_actions_per_minute
    /\ action_timestamps[1] > 0

\* C3: once 60 seconds have passed since the latest recorded action, the
\* next rate check answers true, and a valid action whose backend call works
\* is executed.
C3_Recovery ==
    [][(ExecCall /\ \A i \in DOMAIN action_timestamps :
                        now - action_timestamps[i] >= Window) =>
        /\ last_allow' = TRUE
        /\ (last_backend' # NoCall /\ ~last_raised' => last_result' = "true")]_vars

\* The ceiling was reached at time 0 and an action is recorded at time 60.
C3_Witness ==
    /\ interaction_count = max_actions_per_minute + 1
    /\ action_timestamps = << Window >>
    /\ last_result = "true"
    /\ last_backend # NoCall

\* C4: a call made while the ceiling is reached inside the window returns
\* false, calls no backend, records no timestamp and leaves
\* interaction_count.
C4_RejectedNoQuota ==
    [][(ExecCall /\ Cardinality(InWindow) >= max_actions_per_minute) =>
        /\ last_result' = "false"
        /\ last_backend' = NoCall
        /\ ~last_raised'
        /\ wait_slept' = 0
        /\ action_timestamps' = LastOf(action_timestamps, Cardinality(InWindow))
        /\ interaction_count' = interaction_count
        /\ current_screenshot' = current_screenshot]_vars

\* A valid click is turned away.
C4_Witness ==
    /\ last_allow = FALSE
    /\ last_result = "false"
    /\ last_action.action_type = "click"
    /\ HasCoords(last_action)
    /\ Len(action_timestamps) = max_actions_per_minute

\* The kinds that need both coordinates, and the kinds that need a payload.
NeedsCoords(a) == a.action_type \in {"click", "move", "scroll"}
NeedsPayload(a) == a.action_type \in {"type", "key_press"}
Payload(a) == IF a.action_type = "type" THEN a.text ELSE a.key

\* What a call that is rejected leaves: no backend call, the counter as it
\* was, and of the timestamps those inside the window.
RejectedFrame ==
    /\ last_result' = "false"
    /\ last_backend' = NoCall
    /\ interaction_count' = interaction_count
    /\ action_timestamps' = LastOf(action_timestamps, Cardinality(InWindow))

\* C5: execute_action on a click, move or scroll without x or without y
\* returns false, calls no backend, and leaves the counter and the
\* timestamps.
C5_CoordsValidated ==
    [][(ExecCall /\ NeedsCoords(last_action') /\ ~HasCoords(last_action')) =>
        RejectedFrame]_vars

\* C6: execute_action on a type without text, or a key_press without key,
\* returns false, calls no backend, and leaves the counter and the
\* timestamps.
C6_PayloadValidated ==
    [][(ExecCall /\ NeedsPayload(last_action') /\ ~Truthy(Payload(last_action'))) =>
        RejectedFrame]_vars

\* C7: interaction_count never decreases and is the number of calls that
\* returned true: a call that returns true adds one to it and appends one
\* timestamp, the time of the record; any other step leaves it.
C7_CountIsSuccesses ==
    [][/\ interaction_count' >= interaction_count
       /\ interaction_count' = returned_true'
       /\ IF ExecCall /\ last_result' = "true"
          THEN /\ interaction_count' = interaction_count + 1
               /\ Len(action_timestamps') = Cardinality(InWindow) + 1
               /\ action_timestamps'[Len(action_timestamps')] = now'
          ELSE /\ interaction_count' = interaction_count
               /\ Len(action_timestamps') <= Len(action_timestamps)]_vars

\* Calls have returned true, and the latest one returned false after its
\* backend call raised.
C7_Witness ==
    /\ interaction_count = 2
    /\ last_result = "false"
    /\ last_allow
    /\ last_raised

C9_UnknownKind ==
    [][(ExecCall /\ ~(last_action'.action_type \in
            {"click", "type", "key_press", "scroll", "move", "screenshot", "wait"})) =>
        /\ RejectedFrame
        /\ ~last_raised'
        /\ wait_slept' = 0
        /\ current_screenshot' = current_screenshot]_vars

\* task_complete is given to the executor while the limiter lets calls through.
C9_Witness ==
    /\ last_action.action_type = "task_complete"
    /\ last_allow
    /\ last_result = "false"
    /\ interaction_count > 0

\* A step in which execute_ai_task returns.
TaskReturns == pc # "idle" /\ pc' = "idle" /\ task_result' \in {"true", "false"}

\* C10: execute_ai_task returns true iff a cycle within max_iterations got
\* the suggestion task_complete; that cycle is the last one (no cycle runs
\* after it), and it gives nothing to the executor or the backend.
C10_TaskCompletion ==
    [][/\ (pc' # "idle" => complete_at' = 0)
       /\ (TaskReturns =>
            /\ (task_result' = "true") <=> (complete_at' # 0)
            /\ complete_at' <= max_iterations
            /\ (complete_at' # 0 =>
                  /\ complete_at' = iteration
                  /\ pc = "analyze"
                  /\ UNCHANGED << now, limiterVars, current_screenshot, execVars >>))]_vars

\* A task has returned true on the suggestion of its second cycle.
C10_Witness ==
    /\ pc = "idle"
    /\ task_result = "true"
    /\ complete_at = 2

\* Replies that carry an action other than task_complete.
NonTerminal == {r \in Responses : r.shape = "object" /\ r.sa = "dict" /\
                                  r.s.action_type # "task_complete"}

\* A step in which the loop's test fails and execute_ai_task returns.
Exhausted == pc = "head" /\ pc' = "idle"

\* C11: a task whose cycles never see task_complete returns false when the
\* loop's test fails, after exactly max_iterations cycles: max_iterations
\* captures, max_iterations analyses, at most one execution per cycle; and
\* a cycle whose reply is a non-terminal action neither raises nor returns.
C11_Exhaustion ==
    [][/\ (Exhausted =>
            /\ task_result' = "false"
            /\ iteration = max_iterations
            /\ task_captures = max_iterations
            /\ task_analyses = max_iterations)
       /\ cycle_execs' <= 1
       /\ (pc = "analyze" =>
            \A reply \in NonTerminal :
                ~TaskRaise(reply) /\ ~TaskComplete(reply))]_vars

\* The last of MaxIterations cycles has executed an action and the loop's
\* test is about to fail.
C11_Witness ==
    /\ pc = "head"
    /\ max_iterations = MaxIterations
    /\ iteration = max_iterations
    /\ task_captures = MaxIterations
    /\ task_analyses = MaxIterations
    /\ cycle_execs = 1

\* The step that opens a cycle.
CycleStart == pc = "head" /\ pc' = "capture"

\* C12: whatever the captures, replies and executions turn out to be, a
\* running execute_ai_task ends; the counter never passes max_iterations,
\* and it is incremented exactly once per cycle, at the cycle's start, also
\* in a cycle that only waits.
C12_Termination ==
    /\ [](iteration <= max_iterations)
    /\ [][/\ (CycleStart => iteration' = iteration + 1)
          /\ (pc # "capture" /\ pc' = "capture" => CycleStart)
          /\ (pc # "idle" /\ pc' # "idle" /\ ~CycleStart =>
                iteration' = iteration)]_vars
    /\ (pc # "idle" ~> pc = "idle")

\* The last cycle of a task of MaxIterations cycles only waited, and the
\* counter stands at max_iterations.
C12_Witness ==
    /\ pc = "head"
    /\ max_iterations = MaxIterations
    /\ iteration = max_iterations
    /\ loop_slept = ShortSleep
    /\ cycle_execs = 0

\* A step in which a cycle of the task calls execute_action.
CycleExec == pc = "analyze" /\ cycle_execs' = cycle_execs + 1

\* C13: when execute_action returns false to the task loop, the loop sleeps
\* decision_interval and goes back to its test with the task still running
\* and the counter as it was; execute_action is called at most once per
\* cycle and only after that cycle's capture and analysis, so the failed
\* action is not given to the executor again.
C13_FailureContinues ==
    [][/\ (CycleExec /\ last_result' = "false" =>
            /\ pc' = "head"
            /\ loop_slept' = decision_interval
            /\ iteration' = iteration
            /\ max_iterations' = max_iterations
            /\ task_result' = "none")
       /\ (cycle_execs' # cycle_execs /\ pc' # "idle" =>
            CycleExec \/ (CycleStart /\ cycle_execs' = 0))
       /\ cycle_execs' <= 1
       /\ (pc = "head" => pc' \in {"head", "capture", "idle"})
       /\ (pc = "capture" => pc' \in {"capture", "analyze", "idle"})]_vars

\* A cycle's action was refused by the rate limiter, and the loop is back at
\* its test with cycles left.
C13_Witness ==
    /\ pc = "head"
    /\ cycle_execs = 1
    /\ ~last_allow
    /\ last_result = "false"
    /\ loop_slept = decision_interval
    /\ iteration < max_iterations

\* Replies that suggest a wait with a duration: {"type": "wait", "x": n}.
TimedWaits == {r \in Responses : r.shape = "object" /\ r.sa = "dict" /\
                                 r.s.action_type = "wait" /\ ~IsNone(r.s.x)}

\* C14: a cycle whose reply suggests a wait with a duration (x set) does
\* not take the short-sleep path (it would give the wait to the executor).
C14_TimedWaitExecuted ==
    [][pc = "analyze" => \A reply \in TimedWaits : ~TaskWait(reply)]_vars

\* C15: for a reply whose text is not JSON, analyze_screen_with_ai raises
\* nothing and returns a dict whose suggested action is a wait, whose element
\* list is empty and whose description is the reply's text.
C15_DecodeFallback ==
    reply_in.shape \in {"not_json", "cut_json"} =>
        /\ ~analysis_raised
        /\ analysis_out.is_dict
        /\ analysis_out.sa = "dict"
        /\ analysis_out.s.action_type = "wait"
        /\ analysis_out.elements = << >>
        /\ analysis_out.analysis = ReplyText(reply_in)

\* An analysis has been returned for a reply that is JSON cut off.
C15_Witness ==
    /\ reply_in.shape = "cut_json"
    /\ analysis_out.analysis = "cut"
    /\ analysis_out.s = FallbackWait

\* Replies that are not a JSON object with a dict for suggested_action.
Deviant == {r \in Responses : r.shape # "transport_error" /\
                              ~(r.shape = "object" /\ r.sa = "dict")}

\* C16: no reply that deviates from the documented shape makes a cycle of
\* the task loop raise (the cycle would be a wait, and the loop would go on).
C16_DeviationIsWait ==
    [][pc = "analyze" => \A reply \in Deviant : ~TaskRaise(reply)]_vars

\* The reply of a request answered by text that is not JSON.
DecodeFailure == Reply("not_json", "absent", NoAction)

\* C17: when the request to the vision model fails, analyze_screen_with_ai
\* raises nothing and returns a dict whose description is the error text and
\* whose suggested action is a wait; a loop's cycle does with it what it
\* does with the result of a decode failure: the short-sleep path.
C17_TransportFallback ==
    reply_in.shape = "transport_error" =>
        /\ ~analysis_raised
        /\ analysis_out.is_dict
        /\ analysis_out.analysis = ErrorText
        /\ analysis_out.elements = << >>
        /\ analysis_out.s.action_type = "wait"
        /\ Decision(analysis_out) = "wait"
        /\ Decision(analysis_out) = Decision(Analyze(DecodeFailure))

\* A request has failed, with a capture at hand.
C17_Witness ==
    /\ reply_in.shape = "transport_error"
    /\ analysis_out.analysis = ErrorText
    /\ ~IsNone(current_screenshot)

\* C19: a take_screenshot call in which saving the copy fails returns the
\* image, having set current_screenshot.
C19_SaveFailureReturns ==
    capture_fault = "save_error" =>
        capture_result = "image" /\ ~IsNone(current_screenshot)

\* C18: the capture of a cycle never ends execute_ai_task: after it the
\* task is still inside its loop, at the analysis or back at the loop's test.
C18_CaptureFailureContinues ==
    [][pc = "capture" => pc' \in {"capture", "analyze", "head"}]_vars

\* stop() has been called and the autonomous loop has not ended yet.
Stopping == apc # "off" /\ ~is_running

\* C20: once stop() has cleared the flag while start_autonomous_mode runs,
\* the cycle in flight goes on through its capture, analysis and action
\* (only its own exception ends it early); at the loop's test no further
\* cycle starts: the call returns, changing nothing but its own position,
\* with is_running false; and the loop does reach that end.
C20_StopAtBoundary ==
    /\ [](apc = "off" => ~is_running)
    /\ [][Stopping =>
            /\ (apc = "capture" => apc' \in {"capture", "analyze", "off"})
            /\ (apc = "analyze" => apc' \in {"analyze", "head", "off"})
            /\ (apc \in {"capture", "analyze"} /\ apc' = "off" =>
                  auto_end' = "error")
            /\ (apc = "head" => apc' \in {"head", "off"})
            /\ (apc = "head" /\ apc' = "off" =>
                  /\ auto_end' = "returned"
                  /\ ~is_running'
                  /\ UNCHANGED << now, limiterVars, current_screenshot,
                                  execVars >>)]_vars
    /\ (Stopping ~> apc = "off")

\* stop() was called between a cycle's capture and its analysis, and the
\* loop has ended at its test.
C20_Witness ==
    /\ apc = "off"
    /\ ~is_running
    /\ auto_end = "returned"
    /\ stop_at = "analyze"

\* C22: is_running is true whenever execute_ai_task is inside its loop (the
\* flag covers the task loop, which would read it at each iteration).
C22_RunningCoversTask == pc # "idle" => is_running

\* C28: a process whose configured key is empty never has a controller: it
\* is starting or has exited, and no capture, analysis, action or loop has
\* been performed.
C28_NoCredentialNoController ==
    api_key = "" =>
        /\ proc \in {"starting", "exited"}
        /\ NothingCalled

\* Construction has ended the process for want of a key.
C28_Witness == api_key = "" /\ proc = "exited"

\* C29: the ceiling of a constructed controller is the configured
\* max_actions_per_minute.
C29_CeilingIsConfigured ==
    proc = "ready" /\ ~IsNone(config_ceiling) =>
        max_actions_per_minute = Val(config_ceiling)

\* The same reply with another confidence in its suggestion.
Reconfident(reply, c) ==
    Reply(reply.shape, reply.sa, WithConfidence(reply.s, c))

\* C27: a step that is execute_action(a) for an action of confidence c1 is
\* also the step of the same call for every other confidence c2 (same
\* result, same backend call, same state changes); and what a cycle of the
\* task loop does with a suggestion (wait, return, or execute, and the
\* execution's effects) is the same for every confidence in it.
C27_ConfidenceAdvisory ==
    [][/\ (pc = "idle" =>
            \A a \in ConfActions : \A c1 \in Confidences :
              \A fault \in FaultsOf(a) : \A d \in Elapsed :
                ExecuteConfident(a, c1, fault, d) =>
                    \A c2 \in Confidences : ExecuteConfident(a, c2, fault, d))
       /\ (pc = "analyze" =>
            \A reply \in ConfReplies : \A c2 \in Confidences :
              /\ TaskWait(reply) => TaskWait(Reconfident(reply, c2))
              /\ TaskComplete(reply) => TaskComplete(Reconfident(reply, c2))
              /\ \A fault \in Faults : \A d \in Elapsed :
                    TaskExecute(reply, fault, d) =>
                        TaskExecute(Reconfident(reply, c2), fault, d))]_vars

\* A click has been executed, and its rate check, backend call and result
\* are on record.
C27_Witness ==
    /\ last_action.action_type = "click"
    /\ last_result = "true"
    /\ last_backend # NoCall
    /\ interaction_count > 0

\* C23: a KeyboardInterrupt that lands in an action's backend call lets the
\* action finish: the step counts the action and records its timestamp
\* after the pruned list.
C23_InterruptLetsActionFinish ==
    [][apc = "analyze" =>
        \A reply \in Responses : \A shot_done \in BOOLEAN :
            AutoExecuteInterrupted(reply, shot_done) =>
                /\ interaction_count' = interaction_count + 1
                /\ Len(action_timestamps') =
                      Len(Prune(action_timestamps, now)) + 1]_vars

\* C21: once the dashboard has accepted a stop and no start follows, the
\* worker thread eventually ends.
C21_StopEndsWorker == stop_pending ~> worker = "none"

\* C24: the task loop and the autonomous loop are never active at the same
\* time on the shared controller.
C24_SingleActiveLoop == ~(pc # "idle" /\ apc # "off")

\* C26: a capture requested by the front end while a loop is between its
\* capture and its analysis leaves the image that analysis will encode.
C26_AnalysedImageIsOwnCapture ==
    [][(apc = "analyze" \/ pc = "analyze") =>
        \A fault \in WebFaults :
            TakeScreenshot(fault) => current_screenshot' = current_screenshot]_vars

\* C25: with several callers, the timestamps less than 60 seconds old are
\* never more than the ceiling.
C25_ConcurrentRateLimit ==
    Len(Prune(action_timestamps, now)) <= max_actions_per_minute

\* C31: an analysis request that returns an analysis has encoded an image
\* captured by that request, at the time of the request.
C31_AnalysisCapturesFirst ==
    [][\A reply \in Responses : \A fault \in Faults :
          (AnalyzeScreen(reply, fault) /\ ~analysis_raised') =>
              current_screenshot' = Some(now)]_vars

\* A step of an operation other than execute_action: a capture, an
\* analysis, stop(), get_system_info(), or a dashboard request for the
\* status, the configuration, a start or a stop.
NonExecutorStep ==
    \/ \E fault \in WebFaults : TakeScreenshot(fault)
    \/ \E reply \in FrameReplies : AnalyzeScreen(reply, "ok")
    \/ Stop
    \/ GetSystemInfo
    \/ GetStatus
    \/ \E ceiling \in ConfigCeilings : HandleConfig(ceiling)
    \/ WebStart
    \/ WebStop

\* C32: the operations other than execute_action leave interaction_count
\* and action_timestamps as they are.
C32_CountersOnlyByExecutor ==
    [][NonExecutorStep => UNCHANGED << interaction_count, action_timestamps >>]_vars

\* Actions have been counted, and the status was asked for afterwards
\* while the loop was running from the dashboard.
C32_Witness ==
    /\ interaction_count = 2
    /\ Len(action_timestamps) = 2
    /\ status_report = Some([is_running |-> TRUE, interaction_count |-> 2])
    /\ current_screenshot # None

\* C33: while the dashboard's flag is false, no autonomous worker is inside
\* a cycle (capturing, analysing or executing).
C33_StatusAgreesWithLoop == ~web_running => apc \notin {"capture", "analyze"}

\* C34: a start request served while the dashboard's flag is true, and a
\* stop request served while it is false, answer 'no_change'; the first
\* starts no worker, the second changes neither running flag.
C34_ToggleIdempotent ==
    [][/\ (web_running /\ ToggleAutonomous(TRUE)) =>
             /\ web_answer' = "no_change"
             /\ worker' = worker
             /\ UNCHANGED << web_running, is_running >>
       /\ (~web_running /\ ToggleAutonomous(FALSE)) =>
             /\ web_answer' = "no_change"
             /\ UNCHANGED << web_running, is_running >>]_vars

\* A stop request has been answered 'no_change' while a worker that an
\* earlier stop did not end is still cycling.
C34_Witness ==
    /\ web_answer = "no_change"
    /\ ~web_running
    /\ is_running
    /\ apc = "analyze"
    /\ stop_pending

\* No caller is inside execute_action.
AllCallsFinished ==
    \A c \in Callers : in_call[c] = NoAction /\ pruned_read[c] = None

\* C35: once all calls have finished, interaction_count is the number of
\* calls that returned true.
C35_NoLostIncrement == AllCallsFinished => interaction_count = returned_true

\* C36: the assignment that ends a rate check drops no timestamp that is
\* less than 60 seconds old.
C36_NoEarlyDrop ==
    [][\A c \in Callers :
          RacePruneStore(c) =>
              Len(Prune(action_timestamps', now)) >=
                 Len(Prune(action_timestamps, now))]_vars

\* The replies that suggest task_complete or a kind execute_action does
\* not know.
UnrecognisedReplies ==
    {r \in Responses : r.shape = "object" /\ r.sa = "dict" /\
                       r.s.action_type \in {"task_complete", "unknown"}}

\* The cycle's step for a reply, whichever branch it takes.
AutoConsumes(reply) ==
    \/ AutoRaise(reply)
    \/ AutoSkip(reply)
    \/ \E fault \in Faults : \E d \in Elapsed : AutoExecute(reply, fault, d)

\* C37: a suggested task_complete or unknown kind goes to execute_action,
\* which returns false, calls no backend and counts nothing, and the loop
\* goes to its next test with the flag as it was; and a loop that ends has
\* been stopped, interrupted, or left by an exception.
C37_SuggestionNeverEndsLoop ==
    [][/\ apc = "analyze" =>
             \A reply \in UnrecognisedReplies :
                 AutoConsumes(reply) =>
                     /\ apc' = "head"
                     /\ is_running' = is_running
                     /\ auto_execs' = auto_execs + 1
                     /\ last_result' = "false"
                     /\ last_backend' = NoCall
                     /\ interaction_count' = interaction_count
                     /\ action_timestamps' = Prune(action_timestamps, now)
       /\ (apc # "off" /\ apc' = "off") =>
             \/ auto_end' \in {"interrupted", "error"}
             \/ auto_end' = "returned" /\ stop_at # "none"]_vars

\* The loop's latest action was a suggested task_complete, turned away, and
\* the loop is in a later cycle.
C37_Witness ==
    /\ last_action.action_type = "task_complete"
    /\ last_result = "false"
    /\ last_allow
    /\ apc = "analyze"
    /\ is_running
    /\ interaction_count > 0

\* C38: every accepted task leads to a task_completed event for it.
C38_TaskEventuallyReported == task_thread = "running" ~> task_events = 1

\* C39: at most one compose process is running at any time, and a call that
\* finds the current job's process running returns false, starts no
\* process and leaves the job name, the process handle and the log path.
C39_JobExclusion ==
    /\ [](Cardinality(job_running) <= 1)
    /\ [][\A t \in HostThreads :
             (HostCheck(t) /\ JobBusy(job_proc, job_running)) =>
                 /\ host_thread'[t].ret = "false"
                 /\ UNCHANGED << job_name, job_proc, job_log, job_running,
                                 job_count >>]_vars

\* A second job runs after the first has exited, and a call made while it
\* runs has been turned away.
C39_Witness ==
    /\ job_count = 2
    /\ job_running = {2}
    /\ job_proc = Some(2)
    /\ \E t \in HostThreads : host_thread[t].ret = "false"

=============================================================================
